---- MODULE Spec2Model ----
(***************************************************************************)
(* Model of OPL2_Synthesizer.ino: the key-to-channel allocation            *)
(* (manageKeys / getChannel), the base transposition (altBase), the note   *)
(* mapping (playNoteFromBase) and the settings distribution                *)
(* (manageSettings), driven by setup() and then by loop() ticks.           *)
(***************************************************************************)
EXTENDS Integers, Sequences, FiniteSets

VARIABLES
    amountOfKeys,      \* AMOUNT_OF_KEYS of the build (fixed for a behaviour)
    amountOfChannels,  \* AMOUNT_OF_CHANNELS of the build (fixed for a behaviour)
    base,              \* byte base
    channels,          \* Channel channels[AMOUNT_OF_CHANNELS]
    settings,          \* byte settings[AMOUNT_OF_SETTINGS]
    pc,                \* position in setup() / loop()
    key,               \* loop counter of manageKeys
    channel,           \* local copy "Channel channel" of manageKeys
    reads,             \* analogRead / digitalRead results taken by the last step, in order
    calls,             \* driver / serial calls issued by the last step, in order
    notesPlayed,       \* per key: playNote calls since the key's binding was made
    altLog,            \* the last two altBase calls: <<alt, base before>>
    tick,              \* completed loop() iterations
    tickStart          \* base and channels as they were when the iteration began

vars == <<amountOfKeys, amountOfChannels, base, channels, settings, pc, key,
          channel, reads, calls, notesPlayed, altLog, tick, tickStart>>

\* ---------------------------------------------------------------- bounds
MaxTicks == 3          \* loop() iterations explored by Spec
BaseTicks == 2         \* loop() iterations explored from each base by SpecBase
SmallChannels == 2     \* channel count of the exhausted build of SpecExhaust
NoteTicks == 2         \* loop() iterations explored from each base by SpecNotes
SettingsTicks == 1     \* loop() iterations explored by SpecSettings

\* ------------------------------------------------------- configuration
NONE == -1
BASE_NOTE == 36
LOWEST_NOTE == 0
HIGHEST_NOTE == 96
AMOUNT_OF_KEYS == 3
AMOUNT_OF_CHANNELS == 8
AMOUNT_OF_SETTINGS == 5
HIGH == 1
LOW == 0
Levels == {LOW, HIGH}

InitialSettings == <<8, 10, 4, 4, 15>>

\* analogRead results of one manageSettings call offered by the environment of
\* Spec, one raw value per setting: all inputs floating at 0, all at full
\* scale of the byte, and a mixed reading
AnalogReadings == { <<0, 0, 0, 0, 0>>, <<255, 255, 255, 255, 255>>, <<64, 0, 130, 0, 255>> }

Byte(x) == x % 256

Keys == 0 .. (amountOfKeys - 1)
ChannelIds == 0 .. (amountOfChannels - 1)

Call(op, ch, x, y) == [op |-> op, ch |-> ch, x |-> x, y |-> y]

\* ------------------------------------------------------------ getChannel
\* mutant: the scan for the bound channel starts one index too high
RECURSIVE ScanKeySkipsFirst(_, _, _)
ScanKeySkipsFirst(chs, a, k) ==
    IF a + 1 >= amountOfChannels THEN NONE
    ELSE IF chs[a + 1].pressedKey = k /\ ~chs[a + 1].playing THEN a + 1
    ELSE ScanKeySkipsFirst(chs, a + 1, k)

RECURSIVE ScanKey(_, _, _)
ScanKey(chs, a, k) ==
    IF a >= amountOfChannels THEN NONE
    ELSE IF chs[a].pressedKey = k /\ ~chs[a].playing THEN a
    ELSE ScanKey(chs, a + 1, k)

\* mutant: the free-channel scan runs from the highest index down
RECURSIVE ScanFreeFromTop(_, _)
ScanFreeFromTop(chs, b) ==
    IF b >= amountOfChannels THEN NONE
    ELSE IF chs[amountOfChannels - 1 - b].pressedKey = NONE
            /\ ~chs[amountOfChannels - 1 - b].playing
         THEN amountOfChannels - 1 - b
    ELSE ScanFreeFromTop(chs, b + 1)

RECURSIVE ScanFree(_, _)
ScanFree(chs, b) ==
    IF b >= amountOfChannels THEN NONE
    ELSE IF chs[b].pressedKey = NONE /\ ~chs[b].playing THEN b
    ELSE ScanFree(chs, b + 1)

\* mutant: the scan for the channel already bound to the key is left out
getChannelNoKeyScan(chs, k) ==
    IF ScanFree(chs, 0) # NONE THEN chs[ScanFree(chs, 0)]
    ELSE chs[0]

\* mutant: the fallback returns the last channel instead of channels[0]
getChannelFallbackLast(chs, k) ==
    IF ScanKey(chs, 0, k) # NONE THEN chs[ScanKey(chs, 0, k)]
    ELSE IF ScanFree(chs, 0) # NONE THEN chs[ScanFree(chs, 0)]
    ELSE chs[amountOfChannels - 1]

getChannel(chs, k) ==
    IF ScanKey(chs, 0, k) # NONE THEN chs[ScanKey(chs, 0, k)]
    ELSE IF ScanFree(chs, 0) # NONE THEN chs[ScanFree(chs, 0)]
    ELSE chs[0]

\* --------------------------------------------------------------- altBase
\* mutant: the upper limit is tested with <= instead of <
altBaseInclusive(b, alt) ==
    IF (b + alt) >= LOWEST_NOTE /\ (b + alt) <= (HIGHEST_NOTE - amountOfKeys)
    THEN Byte(b + alt)
    ELSE b

\* mutant: the lower limit is not tested
altBaseNoLower(b, alt) ==
    IF (b + alt) < (HIGHEST_NOTE - amountOfKeys)
    THEN Byte(b + alt)
    ELSE b

\* mutant: neither limit is tested
altBaseNoLimits(b, alt) == Byte(b + alt)

altBase(b, alt) ==
    IF (b + alt) >= LOWEST_NOTE /\ (b + alt) < (HIGHEST_NOTE - amountOfKeys)
    THEN Byte(b + alt)
    ELSE b

\* ------------------------------------------------------ playNoteFromBase
\* mutant: the key's offset is not added to the base
playNoteFromBaseNoOffset(ch, offset) ==
    LET note == Byte(base)
        noteInScale == note % 12
        octive == (note - noteInScale) \div 12
    IN  Call("playNote", ch, octive, noteInScale)

playNoteFromBase(ch, offset) ==
    LET note == Byte(base + offset)
        noteInScale == note % 12
        octive == (note - noteInScale) \div 12
    IN  Call("playNote", ch, octive, noteInScale)

\* -------------------------------------------------------- manageSettings
\* mutant: a raw sample of 0 is accepted like any other
AcceptSampleNoZeroRule(old, raw) ==
    LET analog == Byte(raw)
        value == analog \div 64
    IN  IF old # value THEN value ELSE old

AcceptSample(old, raw) ==
    LET analog == Byte(raw)
        value == analog \div 64
    IN  IF old # value /\ analog # 0 THEN value ELSE old

ReadSettings(old, raw) ==
    [i \in 1 .. AMOUNT_OF_SETTINGS |-> AcceptSample(old[i], raw[i])]

RECURSIVE SettingPrints(_, _, _)
SettingPrints(old, new, i) ==
    IF i > AMOUNT_OF_SETTINGS THEN <<>>
    ELSE (IF old[i] # new[i] THEN <<Call("println", NONE, new[i], i - 1)>> ELSE <<>>)
         \o SettingPrints(old, new, i + 1)

ChannelWrites(i, st) ==
    << Call("setTremolo", i, 1, 0), Call("setVibrato", i, 1, 0),
       Call("setMultiplier", i, st[1], 0), Call("setAttack", i, st[2], 0),
       Call("setDecay", i, st[3], 0), Call("setSustain", i, st[4], 0),
       Call("setRelease", i, st[5], 0) >>

RECURSIVE DistributeSettings(_, _, _)
DistributeSettings(chs, st, i) ==
    IF i >= amountOfChannels THEN <<>>
    ELSE (IF ~chs[i].playing THEN ChannelWrites(i, st) ELSE <<>>)
         \o DistributeSettings(chs, st, i + 1)

manageSettings(raw) ==
    /\ reads' = raw
    /\ settings' = ReadSettings(settings, raw)
    /\ calls' = SettingPrints(settings, ReadSettings(settings, raw), 1)
                \o DistributeSettings(channels, ReadSettings(settings, raw), 0)

\* ----------------------------------------------------------------- setup
Setup(A) ==
    /\ pc = "setup"
    /\ \E raw \in A : manageSettings(raw)
    /\ channels' = [i \in ChannelIds |-> [id |-> i, pressedKey |-> NONE, playing |-> FALSE]]
    /\ pc' = "manageSettings"
    /\ UNCHANGED <<amountOfKeys, amountOfChannels, base, key, channel,
                   notesPlayed, altLog, tick, tickStart>>

\* ------------------------------------------------------------------ loop
ManageSettings(A, maxTicks) ==
    /\ pc = "manageSettings"
    /\ tick < maxTicks
    /\ \E raw \in A : manageSettings(raw)
    /\ pc' = "getChannel"
    /\ key' = 0
    /\ tickStart' = [base |-> base, channels |-> channels]
    /\ UNCHANGED <<amountOfKeys, amountOfChannels, base, channels, channel,
                   notesPlayed, altLog, tick>>

\* mutant: the lookup reads the table as it was when the iteration began
GetChannelFromSnapshot ==
    /\ pc = "getChannel"
    /\ channel' = getChannel(tickStart.channels, key)
    /\ pc' = "keyBranch"
    /\ calls' = <<>>
    /\ reads' = <<>>
    /\ UNCHANGED <<amountOfKeys, amountOfChannels, base, channels, settings, key,
                   notesPlayed, altLog, tick, tickStart>>

\* mutant: the lookup also commits the binding on the channel it returns
GetChannelCommits ==
    /\ pc = "getChannel"
    /\ channel' = getChannel(channels, key)
    /\ channels' = [channels EXCEPT ![getChannel(channels, key).id].pressedKey = key]
    /\ pc' = "keyBranch"
    /\ calls' = <<>>
    /\ reads' = <<>>
    /\ UNCHANGED <<amountOfKeys, amountOfChannels, base, settings, key,
                   notesPlayed, altLog, tick, tickStart>>

\* line 127: Channel channel = getChannel(key);
GetChannel ==
    /\ pc = "getChannel"
    /\ channel' = getChannel(channels, key)
    /\ pc' = "keyBranch"
    /\ calls' = <<>>
    /\ reads' = <<>>
    /\ UNCHANGED <<amountOfKeys, amountOfChannels, base, channels, settings, key,
                   notesPlayed, altLog, tick, tickStart>>

NextKey ==
    /\ key' = key + 1
    /\ pc' = IF key + 1 < amountOfKeys THEN "getChannel" ELSE "transpose"

\* mutant: the press branch writes the settings to the channel after the note
PressWritesSettings ==
    /\ calls' = <<playNoteFromBase(Byte(channel.id), key),
                  Call("println", NONE, key, HIGH)>>
                \o ChannelWrites(channel.id, settings)
    /\ channels' = [channels EXCEPT ![channel.id].pressedKey = key]
    /\ notesPlayed' = [notesPlayed EXCEPT ![key] = IF @ < 2 THEN @ + 1 ELSE @]

Press ==
    /\ calls' = <<playNoteFromBase(Byte(channel.id), key),
                  Call("println", NONE, key, HIGH)>>
    /\ channels' = [channels EXCEPT ![channel.id].pressedKey = key]
    /\ notesPlayed' = [notesPlayed EXCEPT ![key] = IF @ < 2 THEN @ + 1 ELSE @]

\* mutant: the release clears the slot indexed by the key, not by channel.id
ReleaseKeyIndex ==
    /\ calls' = <<Call("println", NONE, key, LOW)>>
    /\ channels' = [channels EXCEPT ![key].pressedKey = NONE]
    /\ notesPlayed' = [notesPlayed EXCEPT ![key] = 0]

Release ==
    /\ calls' = <<Call("println", NONE, key, LOW)>>
    /\ channels' = [channels EXCEPT ![channel.id].pressedKey = NONE]
    /\ notesPlayed' = [notesPlayed EXCEPT ![key] = 0]

\* mutant: the press branch does not test channel.pressedKey == NONE
KeyBranchNoGuard(L) ==
    /\ pc = "keyBranch"
    /\ \E r1 \in L, r2 \in L :
        IF r1 = HIGH
        THEN reads' = <<r1>> /\ Press
        ELSE /\ reads' = <<r1, r2>>
             /\ IF r2 = LOW /\ channel.pressedKey = key
                THEN Release
                ELSE calls' = <<>> /\ UNCHANGED <<channels, notesPlayed>>
    /\ NextKey
    /\ UNCHANGED <<amountOfKeys, amountOfChannels, base, settings, channel, altLog, tick,
                   tickStart>>

\* lines 129-141: the if / else if on the key's pin
KeyBranch(L) ==
    /\ pc = "keyBranch"
    /\ \E r1 \in L, r2 \in L :
        IF r1 = HIGH /\ channel.pressedKey = NONE
        THEN reads' = <<r1>> /\ Press
        ELSE /\ reads' = <<r1, r2>>
             /\ IF r2 = LOW /\ channel.pressedKey = key
                THEN Release
                ELSE calls' = <<>> /\ UNCHANGED <<channels, notesPlayed>>
    /\ NextKey
    /\ UNCHANGED <<amountOfKeys, amountOfChannels, base, settings, channel, altLog, tick,
                   tickStart>>

Log(log, alt, b) == IF Len(log) < 2 THEN Append(log, <<alt, b>>)
                    ELSE <<log[2], <<alt, b>>>>

\* mutant: a shift of the base plays the note held on channel 0 again at the
\* new pitch
TransposeRetriggers(L) ==
    /\ pc = "transpose"
    /\ \E down \in L, up \in L :
        LET b1 == IF down = HIGH THEN altBase(base, -1) ELSE base
            l1 == IF down = HIGH THEN Log(altLog, -1, base) ELSE altLog
            b2 == IF up = HIGH THEN altBase(b1, 1) ELSE b1
            l2 == IF up = HIGH THEN Log(l1, 1, b1) ELSE l1
            note == Byte(b2 + channels[0].pressedKey)
        IN  /\ base' = b2
            /\ altLog' = l2
            /\ reads' = <<down, up>>
            /\ calls' = IF b2 # base /\ channels[0].pressedKey # NONE
                        THEN <<Call("playNote", 0, note \div 12, note % 12)>>
                        ELSE <<>>
    /\ pc' = "manageSettings"
    /\ tick' = tick + 1
    /\ UNCHANGED <<amountOfKeys, amountOfChannels, channels, settings, key, channel,
                   notesPlayed, tickStart>>

\* lines 144-145 and the delay that ends the iteration
Transpose(L) ==
    /\ pc = "transpose"
    /\ \E down \in L, up \in L :
        LET b1 == IF down = HIGH THEN altBase(base, -1) ELSE base
            l1 == IF down = HIGH THEN Log(altLog, -1, base) ELSE altLog
            b2 == IF up = HIGH THEN altBase(b1, 1) ELSE b1
            l2 == IF up = HIGH THEN Log(l1, 1, b1) ELSE l1
        IN  /\ base' = b2
            /\ altLog' = l2
            /\ reads' = <<down, up>>
    /\ calls' = <<>>
    /\ pc' = "manageSettings"
    /\ tick' = tick + 1
    /\ UNCHANGED <<amountOfKeys, amountOfChannels, channels, settings, key, channel,
                   notesPlayed, tickStart>>

\* ------------------------------------------------------- specifications
\* state after construction of the globals, before setup()
Construct(nk, nc) ==
    /\ amountOfKeys = nk
    /\ amountOfChannels = nc
    /\ base = BASE_NOTE
    /\ channels = [i \in 0 .. (nc - 1) |-> [id |-> 0, pressedKey |-> 0, playing |-> FALSE]]
    /\ settings = InitialSettings
    /\ pc = "setup"
    /\ key = 0
    /\ channel = [id |-> 0, pressedKey |-> 0, playing |-> FALSE]
    /\ reads = <<>>
    /\ calls = <<>>
    /\ notesPlayed = [k \in 0 .. (nk - 1) |-> 0]
    /\ altLog = <<>>
    /\ tick = 0
    /\ tickStart = [base |-> BASE_NOTE,
                    channels |-> [i \in 0 .. (nc - 1) |->
                                    [id |-> 0, pressedKey |-> 0, playing |-> FALSE]]]

Init == Construct(AMOUNT_OF_KEYS, AMOUNT_OF_CHANNELS)

Next ==
    \/ Setup(AnalogReadings)
    \/ ManageSettings(AnalogReadings, MaxTicks)
    \/ GetChannel
    \/ KeyBranch(Levels)
    \/ Transpose(Levels)

Spec == Init /\ [][Next]_vars

\* the build with fewer channels than keys (channel-table exhaustion)
InitExhaust == Construct(SmallChannels + 1, SmallChannels)

SpecExhaust == InitExhaust /\ [][Next]_vars

\* every valid base, in the state setup() leaves; the environment presses a
\* transpose key or none, no piano key, and the analog inputs float at 0
IdleReadings == { <<0, 0, 0, 0, 0>> }

InitBase ==
    \/ Construct(AMOUNT_OF_KEYS, AMOUNT_OF_CHANNELS)
    \/ /\ amountOfKeys = AMOUNT_OF_KEYS
       /\ amountOfChannels = AMOUNT_OF_CHANNELS
       /\ base \in LOWEST_NOTE .. (HIGHEST_NOTE - AMOUNT_OF_KEYS - 1)
       /\ channels = [i \in 0 .. (AMOUNT_OF_CHANNELS - 1) |->
                        [id |-> i, pressedKey |-> NONE, playing |-> FALSE]]
       /\ settings = InitialSettings
       /\ pc = "manageSettings"
       /\ key = 0
       /\ channel = [id |-> 0, pressedKey |-> 0, playing |-> FALSE]
       /\ reads = <<>>
       /\ calls = DistributeSettings(channels, settings, 0)
       /\ notesPlayed = [k \in 0 .. (AMOUNT_OF_KEYS - 1) |-> 0]
       /\ altLog = <<>>
       /\ tick = 0
       /\ tickStart = [base |-> base, channels |-> channels]

NextBase ==
    \/ Setup(IdleReadings)
    \/ ManageSettings(IdleReadings, BaseTicks)
    \/ GetChannel
    \/ KeyBranch({LOW})
    \/ Transpose(Levels)

SpecBase == InitBase /\ [][NextBase]_vars

\* every valid base, in the state setup() leaves, with the piano keys and the
\* transpose keys free and the analog inputs floating at 0
InitNotes == InitBase /\ pc = "manageSettings"

NextNotes ==
    \/ ManageSettings(IdleReadings, NoteTicks)
    \/ GetChannel
    \/ KeyBranch(Levels)
    \/ Transpose(Levels)

SpecNotes == InitNotes /\ [][NextNotes]_vars

\* the analog inputs swept: one input at any value of the 10-bit converter
\* that fits a byte, or at a value that does not, while the others float at
\* 0, and the readings of Spec; no key is pressed
AdcSamples == (0 .. 255) \cup {256, 320, 1023}

SweepReadings ==
    { [i \in 1 .. AMOUNT_OF_SETTINGS |-> IF i = j THEN r ELSE 0] :
        j \in 1 .. AMOUNT_OF_SETTINGS, r \in AdcSamples }

NextSettings ==
    \/ Setup(AnalogReadings)
    \/ ManageSettings(SweepReadings \cup AnalogReadings, SettingsTicks)
    \/ GetChannel
    \/ KeyBranch({LOW})
    \/ Transpose({LOW})

SpecSettings == Init /\ [][NextSettings]_vars

\* ================================================================ claims
\* vocabulary of the claims
BoundTo(chs, k) == {c \in ChannelIds : chs[c].pressedKey = k}
FreeChannels(chs) == {c \in ChannelIds : chs[c].pressedKey = NONE /\ ~chs[c].playing}
Lowest(S) == CHOOSE x \in S : \A y \in S : x <= y
Sampled(rs, level) == rs # <<>> /\ \A i \in 1 .. Len(rs) : rs[i] = level
IsPlayNote(c) == c.op = "playNote"
PlayNotes(cs) == SelectSeq(cs, IsPlayNote)
Exhausted(chs, k) == BoundTo(chs, k) = {} /\ FreeChannels(chs) = {}

\* C1: after setup(), in every reachable state, for every key k at most one
\* channel has pressedKey = k.
C1_OneChannelPerKey ==
    pc # "setup" => \A k \in Keys : Cardinality(BoundTo(channels, k)) <= 1

\* all three keys are held at once, each on a channel of its own
C1_Witness ==
    /\ pc # "setup"
    /\ \A k \in Keys : Cardinality(BoundTo(channels, k)) = 1

\* C2: a key step that samples key HIGH while no channel is bound to it and a
\* channel is free binds exactly the lowest-indexed free channel to the key,
\* leaves every other binding alone and issues exactly one playNote, on that
\* channel's id, for the note base + key.
C2_FirstFitPress ==
    [][ (pc = "keyBranch" /\ Sampled(reads', HIGH)
            /\ BoundTo(channels, key) = {} /\ FreeChannels(channels) # {})
        => LET c == Lowest(FreeChannels(channels))
               notes == PlayNotes(calls')
           IN  /\ channels' = [channels EXCEPT ![c].pressedKey = key]
               /\ Len(notes) = 1
               /\ notes[1].ch = channels[c].id
               /\ notes[1].x * 12 + notes[1].y = base + key ]_vars

\* key 0 is pressed again in a later tick while key 1 holds channel 1, and it
\* gets channel 0 back (not channel 2)
C2_Witness ==
    /\ pc = "getChannel"
    /\ key = 1
    /\ tick >= 1
    /\ PlayNotes(calls) # <<>>
    /\ PlayNotes(calls)[1].ch = 0
    /\ channels[0].pressedKey = 0
    /\ channels[1].pressedKey = 1
    /\ channels[2].pressedKey = NONE

\* C3: a key step that samples key LOW while a channel is bound to it leaves
\* that channel free (pressedKey = NONE and playing = FALSE) and no channel
\* bound to the key.
C3_Release ==
    [][ (pc = "keyBranch" /\ Sampled(reads', LOW) /\ BoundTo(channels, key) # {})
        => /\ \A c \in BoundTo(channels, key) :
                channels'[c].pressedKey = NONE /\ ~channels'[c].playing
           /\ BoundTo(channels', key) = {} ]_vars

\* key 1 has just been released from channel 1 while key 0 still holds channel 0
C3_Witness ==
    /\ pc = "getChannel"
    /\ key = 2
    /\ reads = <<LOW, LOW>>
    /\ calls = <<Call("println", NONE, 1, LOW)>>
    /\ channels[0].pressedKey = 0
    /\ channels[1].pressedKey = NONE
    /\ ~channels[1].playing

\* C4: a key step that samples key HIGH while the key is already bound issues
\* no playNote and changes no binding; and from the press of a key to its
\* release exactly one playNote has been issued for it, whatever happens to
\* the base meanwhile.
C4_NoRetrigger ==
    [][ /\ (pc = "keyBranch" /\ Sampled(reads', HIGH) /\ BoundTo(channels, key) # {})
            => (PlayNotes(calls') = <<>> /\ channels' = channels)
        /\ \A k \in Keys :
            /\ notesPlayed'[k] <= 1
            /\ BoundTo(channels', k) # {} => notesPlayed'[k] = 1 ]_vars

\* key 0 is held over a tick in which the base was shifted, is sampled HIGH
\* again and is left alone
C4_Witness ==
    /\ pc = "getChannel"
    /\ key = 1
    /\ reads = <<HIGH, HIGH>>
    /\ calls = <<>>
    /\ channels[0].pressedKey = 0
    /\ notesPlayed[0] = 1
    /\ tick = 1
    /\ base # BASE_NOTE

\* C5: getChannel always returns one of the channels; when no channel is
\* bound to the key and none is free it returns channels[0] (id 0), which is
\* in use by another key.
C5_ExhaustionFallback ==
    [][ pc = "getChannel"
        => /\ \E c \in ChannelIds : channel' = channels[c]
           /\ Exhausted(channels, key)
                => /\ channel' = channels[0]
                   /\ channel'.id = 0
                   /\ channel'.pressedKey \notin {NONE, key} ]_vars

\* every channel is held by another key and getChannel has returned channel 0
C5_Witness ==
    /\ pc = "keyBranch"
    /\ Exhausted(channels, key)
    /\ channel = channels[0]
    /\ channel.pressedKey \notin {NONE, key}

\* C6: a getChannel call changes no channel record, nor base, nor settings,
\* and a second call with the same key right after it returns the same
\* channel.
C6_PureLookup ==
    [][ pc = "getChannel"
        => /\ UNCHANGED <<channels, base, settings>>
           /\ getChannel(channels', key) = channel' ]_vars

\* getChannel has returned a free channel for key 1 while key 0 holds channel 0,
\* and that channel is still free
C6_Witness ==
    /\ pc = "keyBranch"
    /\ key = 1
    /\ channels[0].pressedKey = 0
    /\ channel = channels[1]
    /\ channel.pressedKey = NONE

\* C8: after a press (key sampled HIGH with no channel bound to it) the
\* channel that became bound to the key has playing = TRUE.
C8_PressMarksActive ==
    (pc \in {"getChannel", "transpose"} /\ PlayNotes(calls) # <<>>)
        => channels[PlayNotes(calls)[1].ch].playing

\* C9: base starts at BASE_NOTE and is always in
\* [LOWEST_NOTE, HIGHEST_NOTE - AMOUNT_OF_KEYS); the last altBase(alt) call
\* applied its change if the new value is in that range and left base alone
\* otherwise.
C9_BaseInRange ==
    /\ base \in LOWEST_NOTE .. (HIGHEST_NOTE - amountOfKeys - 1)
    /\ pc = "setup" => base = BASE_NOTE
    /\ altLog # <<>> =>
        LET alt == altLog[Len(altLog)][1]
            before == altLog[Len(altLog)][2]
        IN  base = IF before + alt >= LOWEST_NOTE
                      /\ before + alt < HIGHEST_NOTE - amountOfKeys
                   THEN before + alt
                   ELSE before

\* altBase(1) at the highest valid base was refused
C9_Witness ==
    /\ altLog # <<>>
    /\ altLog[Len(altLog)] = <<1, HIGHEST_NOTE - AMOUNT_OF_KEYS - 1>>
    /\ base = HIGHEST_NOTE - AMOUNT_OF_KEYS - 1

\* the last two altBase calls had opposite signs
OppositePair(log) == Len(log) = 2 /\ log[1][1] = -log[2][1]

\* C10 as stated: after every +1/-1 and every -1/+1 pair of altBase calls the
\* base equals the value before the pair.
C10_PairReturns ==
    OppositePair(altLog) => base = altLog[1][2]

\* C10 amended: a pair returns the base to the value before it, except a
\* -1/+1 pair from LOWEST_NOTE, which ends one above, and a +1/-1 pair from
\* the highest valid base, which ends one below.
C10_PairReturnsInside ==
    OppositePair(altLog) =>
        LET first == altLog[1][1]
            before == altLog[1][2]
        IN  base = IF first = -1 /\ before = LOWEST_NOTE THEN before + 1
                   ELSE IF first = 1 /\ before = HIGHEST_NOTE - amountOfKeys - 1
                        THEN before - 1
                   ELSE before

\* a +1/-1 pair spread over two ticks has brought the base back, next to the
\* upper limit
C10_Witness ==
    /\ altLog = << <<1, HIGHEST_NOTE - AMOUNT_OF_KEYS - 2>>,
                   <<-1, HIGHEST_NOTE - AMOUNT_OF_KEYS - 1>> >>
    /\ base = HIGHEST_NOTE - AMOUNT_OF_KEYS - 2

\* the key whose press issued the playNote of the last step (the press
\* branch prints the key right after the playNote)
PressedKey == calls[2].x

\* C11: base + (AMOUNT_OF_KEYS - 1) never exceeds HIGHEST_NOTE - 1, and every
\* playNote issued is for base + key <= HIGHEST_NOTE - 1, a sum that fits a
\* byte, with an octave in 0..7 and a note in the octave in 0..11.
C11_ValidNotes ==
    /\ pc # "setup" => base + (amountOfKeys - 1) <= HIGHEST_NOTE - 1
    /\ PlayNotes(calls) # <<>> =>
        /\ base + PressedKey <= HIGHEST_NOTE - 1
        /\ base + PressedKey = Byte(base + PressedKey)
        /\ PlayNotes(calls)[1].x \in 0 .. 7
        /\ PlayNotes(calls)[1].y \in 0 .. 11

\* the highest key is pressed at the highest valid base: note 94, octave 7
C11_Witness ==
    /\ PlayNotes(calls) # <<>>
    /\ base = HIGHEST_NOTE - AMOUNT_OF_KEYS - 1
    /\ PressedKey = AMOUNT_OF_KEYS - 1
    /\ PlayNotes(calls)[1].x = 7
    /\ PlayNotes(calls)[1].y = 10

\* C12: every playNote issued for base + key in [0, 96) passes the note
\* (base + key) mod 12 and an octave with octave * 12 + note = base + key;
\* base 36 key 0 gives (3, 0), base 36 key 2 gives (3, 2), base 37 key 0
\* gives (3, 1).
C12_NoteMapping ==
    PlayNotes(calls) # <<>> =>
        LET octave == PlayNotes(calls)[1].x
            note == PlayNotes(calls)[1].y
        IN  /\ base + PressedKey \in 0 .. (HIGHEST_NOTE - 1) =>
                /\ note = (base + PressedKey) % 12
                /\ octave * 12 + note = base + PressedKey
            /\ base = 36 /\ PressedKey = 0 => octave = 3 /\ note = 0
            /\ base = 36 /\ PressedKey = 2 => octave = 3 /\ note = 2
            /\ base = 37 /\ PressedKey = 0 => octave = 3 /\ note = 1

\* key 0 is pressed after the base was shifted up from 36 to 37
C12_Witness ==
    /\ PlayNotes(calls) # <<>>
    /\ altLog = << <<1, 36>> >>
    /\ base = 37
    /\ PressedKey = 0
    /\ PlayNotes(calls)[1].x = 3
    /\ PlayNotes(calls)[1].y = 1

\* C13: after manageSettings every setting whose raw sample r is in 0..255
\* holds r div 64 if r # 0 and its previous value if r = 0.
C13_SettingsUpdate ==
    [][ (pc \in {"setup", "manageSettings"} /\ Len(reads') = AMOUNT_OF_SETTINGS)
        => \A i \in 1 .. AMOUNT_OF_SETTINGS :
            reads'[i] \in 0 .. 255 =>
                settings'[i] = IF reads'[i] # 0 THEN reads'[i] \div 64
                               ELSE settings[i] ]_vars

\* the second input read 191 and the others 0: attack became 2, the other
\* settings kept their initial values
C13_Witness ==
    /\ pc = "getChannel"
    /\ key = 0
    /\ reads = <<0, 191, 0, 0, 0>>
    /\ settings = <<8, 2, 4, 4, 15>>

\* the channels the last step issued a settings write on
SettingOps == {"setTremolo", "setVibrato", "setMultiplier", "setAttack",
               "setDecay", "setSustain", "setRelease"}
Written(cs) == {cs[i].ch : i \in {j \in 1 .. Len(cs) : cs[j].op \in SettingOps}}

\* C14: manageSettings writes the settings to every channel that is not
\* active and to no channel on which a note-on is in effect (a channel bound
\* to a key since the playNote issued for that key).
C14_NoWriteWhileSounding ==
    (pc = "getChannel" /\ key = 0) =>
        \A c \in ChannelIds :
            /\ ~channels[c].playing => c \in Written(calls)
            /\ channels[c].pressedKey # NONE => c \notin Written(calls)

\* C15: in every iteration manageSettings runs to completion before the key
\* scan starts: settings writes are issued only by the manageSettings step,
\* which opens the iteration; playNotes and binding changes only by key steps;
\* and once the key scan has begun no manageSettings step follows before the
\* iteration ends.
C15_SettingsBeforeKeys ==
    [][ /\ Written(calls') # {} => pc \in {"setup", "manageSettings"}
        /\ (PlayNotes(calls') # <<>> \/ (pc # "setup" /\ channels' # channels))
            => pc = "keyBranch"
        /\ pc = "manageSettings" => (pc' = "getChannel" /\ tick' = tick)
        /\ pc \in {"getChannel", "keyBranch"}
            => (tick' = tick /\ pc' \in {"getChannel", "keyBranch", "transpose"})
        /\ pc = "transpose" => (pc' = "manageSettings" /\ tick' = tick + 1) ]_vars

\* a note is triggered in the first iteration, whose manageSettings had
\* distributed settings changed from the initial ones before the key scan
C15_Witness ==
    /\ pc = "getChannel"
    /\ tick = 0
    /\ PlayNotes(calls) # <<>>
    /\ Written(calls) = {}
    /\ settings # InitialSettings

\* C16: a channel bound to key k stays bound to k in every step except a key
\* step for k itself in which k's pin is read LOW; no step for another key, no
\* transpose step and no manageSettings step changes or clears the binding.
C16_BindingLifetime ==
    [][ pc # "setup" =>
        \A c \in ChannelIds :
            (channels[c].pressedKey # NONE
                /\ channels'[c].pressedKey # channels[c].pressedKey)
            => /\ pc = "keyBranch"
               /\ key = channels[c].pressedKey
               /\ reads'[Len(reads')] = LOW ]_vars

\* key 0 has held channel 0 since the first iteration, through settings
\* changes, a base shift and the press and release of key 1
C16_Witness ==
    /\ pc = "getChannel"
    /\ key = 2
    /\ tick = 2
    /\ calls = <<Call("println", NONE, 1, LOW)>>
    /\ channels[0].pressedKey = 0
    /\ channels[1].pressedKey = NONE
    /\ tickStart.channels[1].pressedKey = 1
    /\ base # BASE_NOTE
    /\ settings # InitialSettings

\* C17 as stated: with every channel bound to another key, a key step that
\* samples the unbound key HIGH binds channel 0 to it and issues a playNote
\* for base + key on channel 0.
C17_StealOnExhaustion ==
    [][ (pc = "keyBranch" /\ Sampled(reads', HIGH) /\ Exhausted(channels, key))
        => /\ channels'[0].pressedKey = key
           /\ Len(PlayNotes(calls')) = 1
           /\ PlayNotes(calls')[1].ch = 0
           /\ PlayNotes(calls')[1].x * 12 + PlayNotes(calls')[1].y = base + key ]_vars

\* C17 amended: with every channel bound to another key, a key step that
\* samples the unbound key HIGH has channel 0 as its lookup result and takes
\* neither branch: no binding changes and no call is issued.
C17_NoStealOnExhaustion ==
    [][ (pc = "keyBranch" /\ Sampled(reads', HIGH) /\ Exhausted(channels, key))
        => /\ channel = channels[0]
           /\ channels' = channels
           /\ calls' = <<>> ]_vars

\* the last key was read HIGH while the other keys held every channel, and
\* nothing happened
C17_Witness ==
    /\ pc = "transpose"
    /\ Exhausted(channels, amountOfKeys - 1)
    /\ reads = <<HIGH, HIGH>>
    /\ calls = <<>>
    /\ channels[0].pressedKey \in 0 .. (amountOfKeys - 2)

\* the channels bound to some key
Bound(chs) == {c \in ChannelIds : chs[c].pressedKey # NONE}

\* C18: in the shipped build (3 keys, 8 channels) at most AMOUNT_OF_KEYS
\* channels are bound, a channel is always free, and every getChannel result
\* is the channel bound to the key or a free channel, never the fallback.
C18_FallbackUnreached ==
    (pc # "setup" /\ amountOfKeys = AMOUNT_OF_KEYS
        /\ amountOfChannels = AMOUNT_OF_CHANNELS)
    => /\ Cardinality(Bound(channels)) <= AMOUNT_OF_KEYS
       /\ FreeChannels(channels) # {}
       /\ pc = "keyBranch" =>
            \E c \in BoundTo(channels, key) \cup FreeChannels(channels) :
                channel = channels[c]

\* all three keys are held and getChannel has returned the channel of key 2
C18_Witness ==
    /\ pc = "keyBranch"
    /\ key = 2
    /\ Cardinality(Bound(channels)) = AMOUNT_OF_KEYS
    /\ channel.pressedKey = 2
    /\ channel = channels[channel.id]

\* what the key scan of the current iteration did to a key
ReleasedThisTick(k) ==
    BoundTo(tickStart.channels, k) # {} /\ BoundTo(channels, k) = {}
PressedThisTick(k) ==
    BoundTo(tickStart.channels, k) = {} /\ BoundTo(channels, k) # {}
ChannelAtStart(k) == CHOOSE c \in BoundTo(tickStart.channels, k) : TRUE
ChannelOf(k) == CHOOSE c \in BoundTo(channels, k) : TRUE

\* C19: when the key scan of an iteration is over, for keys i < j: if i was
\* released and j pressed in this iteration, the channel i freed was
\* available to j (j holds it or a lower one, unless a key between them took
\* it); if j was released and i pressed in this iteration, i does not hold
\* the channel j freed.
C19_ScanOrder ==
    pc = "transpose" =>
        \A i \in Keys, j \in Keys :
            i < j =>
                /\ (ReleasedThisTick(i) /\ PressedThisTick(j))
                    => \/ ChannelOf(j) <= ChannelAtStart(i)
                       \/ channels[ChannelAtStart(i)].pressedKey \in (i + 1) .. (j - 1)
                /\ (ReleasedThisTick(j) /\ PressedThisTick(i))
                    => ChannelOf(i) # ChannelAtStart(j)

\* key 2 held channel 0 and key 0 channel 1; in one iteration key 0 was
\* released, key 1 pressed and key 2 released: key 1 took channel 1, freed by
\* key 0, and not channel 0, freed by key 2 after it
C19_Witness ==
    /\ pc = "transpose"
    /\ tickStart.channels[0].pressedKey = 2
    /\ tickStart.channels[1].pressedKey = 0
    /\ channels[0].pressedKey = NONE
    /\ channels[1].pressedKey = 1

\* C20: the base changes only in the transpose step, which follows the scan
\* of the last key and ends the iteration; that step issues no playNote and
\* changes no binding; during the key scan the base is the one the iteration
\* began with, and every playNote is for that base plus the key.
C20_TransposeAfterKeys ==
    [][ /\ base' # base => (pc = "transpose" /\ key = amountOfKeys)
        /\ pc = "transpose"
            => /\ PlayNotes(calls') = <<>>
               /\ channels' = channels
               /\ notesPlayed' = notesPlayed
               /\ tick' = tick + 1
        /\ pc \in {"getChannel", "keyBranch"} => base = tickStart.base
        /\ PlayNotes(calls') # <<>>
            => PlayNotes(calls')[1].x * 12 + PlayNotes(calls')[1].y
                    = tickStart.base + key ]_vars

\* key 0 was pressed in the first iteration, which ended with a shift up; in
\* the second iteration key 1 is triggered at the new base and key 0, still
\* held, has not been triggered again
C20_Witness ==
    /\ pc = "getChannel"
    /\ tick = 1
    /\ altLog = << <<1, BASE_NOTE>> >>
    /\ tickStart.base = BASE_NOTE + 1
    /\ tickStart.channels[0].pressedKey = 0
    /\ channels[0].pressedKey = 0
    /\ notesPlayed[0] = 1
    /\ PlayNotes(calls) # <<>>
    /\ PressedKey = 1
    /\ PlayNotes(calls)[1].x * 12 + PlayNotes(calls)[1].y = BASE_NOTE + 2

====
